---- MODULE Spec2Model ----
(***************************************************************************)
(* tokenpulse: src/server.py.                                              *)
(*                                                                         *)
(* The request handler get_data(chain) serves a per-chain cache entry      *)
(* while it is younger than CACHE_EXPIRY_TIME and otherwise runs           *)
(* fetch_token_activity_data(chain): one ranking query against the event   *)
(* table of the chain, then one get_token_info call per ranked row.        *)
(* get_data is a plain "def" route, so the framework runs each request on  *)
(* a worker thread: several get_data calls are in progress at once and     *)
(* interleave at every blocking call and between any two reads or writes   *)
(* of the cache and the clock.  Each request is one get_data call on a     *)
(* thread of its own; requests are numbered in the order they arrive.      *)
(*                                                                         *)
(* Python values that mix types in one place are tagged records:           *)
(* None, IntVal(n), StrVal(s).                                                   *)
(***************************************************************************)
EXTENDS Integers, Sequences, FiniteSets, TLC

VARIABLES
    cache,      \* the module-level dict: chain -> entry, or NoEntry
    now,        \* what time.time() returns
    db,         \* the day-groups of the event table of the known chain
    pc,         \* per worker thread: where its get_data call stands
    chain,      \* per thread: the argument of its get_data call
    judged,     \* per thread: cached_data, the entry is_cache_valid looked at
    rows,       \* per thread: what cur.fetchall() returned
    results,    \* per thread: the local list of fetch_token_activity_data
    idx,        \* per thread: the row the enrichment loop is at
    resolved,   \* per thread: per row done, the answers of the RPC and the info returned
    answers,    \* per thread: what the remote endpoint answers for the token being resolved
    entry,      \* per thread: the new dict built for cache[chain]
    calls,      \* per thread: calls made by the current get_data call
    ret,        \* per thread: what the get_data call returned
    absorbed,   \* per thread: whether the except of lines 255-259 ran
    finished    \* outputs of the fetch_token_activity_data runs that returned

vars == <<cache, now, db, pc, chain, judged, rows, results, idx, resolved,
          answers, entry, calls, ret, absorbed, finished>>

-----------------------------------------------------------------------------
(* Python values *)

None == [none |-> TRUE]
IntVal(n) == [int |-> n]
StrVal(s) == [str |-> s]

-----------------------------------------------------------------------------
(* The ranking query, lines 188-247.  A table is a sequence of tokens; a   *)
(* token is its day-groups: for each day d (d days before today's          *)
(* date_trunc('day', now())) the aggregates of the Transfer events of that *)
(* day, total_transactions = 0 when the token has no event on that day.    *)

INTERVAL_14_DAYS == 14
INTERVAL_7_DAYS == 7
ROWS_PRECEDING == 13
HAVING_UNIQUE_ADDRESSES == 100
WHERE_PREVIOUS_WEEK == 100
LIMIT == 50

Days == 0..INTERVAL_14_DAYS

NoEvents == [unique_addresses |-> 0, total_volume |-> 0, total_transactions |-> 0]

DayGroup(u, v, n) == [unique_addresses |-> u, total_volume |-> v, total_transactions |-> n]

RECURSIVE SumOver(_, _)
SumOver(S, f) ==
    IF S = {} THEN 0
    ELSE LET x == CHOOSE y \in S : TRUE IN f[x] + SumOver(S \ {x}, f)

MaxOf(S) == CHOOSE x \in S : \A y \in S : y <= x

\* token_activity: the (token, day) groups that pass the HAVING filter.
token_activity(token) ==
    {d \in Days : /\ token[d].total_transactions > 0
                  /\ token[d].unique_addresses > HAVING_UNIQUE_ADDRESSES}

\* The frame "rows between 13 preceding and current row" of the row of day d,
\* in the order of stringDay (older rows precede).
WindowFrame(token, d) ==
    {e \in token_activity(token) :
        /\ e >= d
        /\ Cardinality({x \in token_activity(token) : d < x /\ x <= e}) <= ROWS_PRECEDING}

\* rolling_7_day: the windowed sum of one metric at the row of day d.
rolling_7_day(token, d, metric) ==
    SumOver(WindowFrame(token, d), [e \in Days |-> token[e][metric]])

CurrentWeekDays == 0..INTERVAL_7_DAYS
PreviousWeekDays == INTERVAL_7_DAYS..INTERVAL_14_DAYS

\* max(case when stringDay between ... then rolling end): NULL when no row
\* of the token lies in the window.
MaxCase(token, window, metric) ==
    LET S == {rolling_7_day(token, d, metric) : d \in token_activity(token) \cap window}
    IN IF S = {} THEN None ELSE IntVal(MaxOf(S))

Coalesce(x, dflt) == IF x = None THEN dflt ELSE x.int

\* comparison joined with the final select list: the row of one token.
comparison(address, token) ==
    LET cu == MaxCase(token, CurrentWeekDays, "unique_addresses")
        pu == MaxCase(token, PreviousWeekDays, "unique_addresses")
        cv == MaxCase(token, CurrentWeekDays, "total_volume")
        pv == MaxCase(token, PreviousWeekDays, "total_volume")
        ct == MaxCase(token, CurrentWeekDays, "total_transactions")
        pt == MaxCase(token, PreviousWeekDays, "total_transactions")
    IN [token_address |-> address,
        unique_addresses_growth |-> Coalesce(cu, 0) - Coalesce(pu, 0),
        total_transaction_growth |-> Coalesce(ct, 0) - Coalesce(pt, 0),
        current_week_unique_addresses |-> cu,
        previous_week_unique_addresses |-> pu,
        current_week_total_volume |-> cv,
        previous_week_total_volume |-> pv,
        current_week_total_transactions |-> ct,
        previous_week_total_transactions |-> pt]

\* where previous_week_unique_addresses > 100: a NULL does not pass.
WhereClause(row) ==
    /\ row.previous_week_unique_addresses # None
    /\ row.previous_week_unique_addresses.int > WHERE_PREVIOUS_WEEK

\* Mutant: the order without "desc".
OrderByAscending(met, a, b) ==
    \/ a.unique_addresses_growth < b.unique_addresses_growth
    \/ /\ a.unique_addresses_growth = b.unique_addresses_growth
       /\ met[a.token_address] <= met[b.token_address]

\* order by unique_addresses_growth desc.  The clause names no second key:
\* rows with equal growth come out in the order the engine meets them, and
\* met[address] is the place at which it meets the row of the token.
OrderBy(met, a, b) ==
    \/ a.unique_addresses_growth > b.unique_addresses_growth
    \/ /\ a.unique_addresses_growth = b.unique_addresses_growth
       /\ met[a.token_address] <= met[b.token_address]

Limit(s) == SubSeq(s, 1, IF Len(s) < LIMIT THEN Len(s) ELSE LIMIT)

\* The meet orders of a table, one for each order of the rows the clause
\* allows: two meet orders that agree on every pair of rows of equal growth
\* give the same rows, so every order of each group of equal growth is taken
\* once, the rows outside the group staying where they are.
RECURSIVE Reordered(_, _)
Reordered(groups, mets) ==
    IF groups = {} THEN mets
    ELSE LET group == CHOOSE g \in groups : TRUE
         IN Reordered(groups \ {group},
                      {[a \in DOMAIN met |-> IF a \in group THEN p[a] ELSE met[a]] :
                           met \in mets, p \in Permutations(group)})

MeetOrders(table) ==
    LET growth == [a \in 1..Len(table) |->
                       comparison(a, table[a]).unique_addresses_growth]
        kept == {a \in 1..Len(table) :
                    /\ token_activity(table[a]) # {}
                    /\ WhereClause(comparison(a, table[a]))}
        groups == {{b \in kept : growth[b] = growth[a]} : a \in kept}
    IN Reordered({g \in groups : Cardinality(g) > 1}, {[a \in 1..Len(table) |-> a]})

\* The whole query: the rows cur.fetchall() returns.
Query(table, met) ==
    LET compared == [a \in 1..Len(table) |-> comparison(a, table[a])]
        present == SelectSeq(compared,
                       LAMBDA r : token_activity(table[r.token_address]) # {})
        kept == SelectSeq(present, WhereClause)
    IN Limit(SortSeq(kept, LAMBDA a, b : OrderBy(met, a, b)))

-----------------------------------------------------------------------------
(* Token metadata, lines 130-177.  An rpc is what the remote endpoint does  *)
(* for one token: the answer of each call, or Raise when the call throws.   *)

Raise == [raise |-> TRUE]
Bool(b) == [bool |-> b]

\* Mutant: the fallback typed by the rule "no decimals, hence ERC-721".
FallbackAsNft == [name |-> "Unknown", symbol |-> "Unknown", decimals |-> None,
                  token_type |-> "ERC-721"]

\* The tuple of line 177.
Fallback == [name |-> "Unknown", symbol |-> "Unknown", decimals |-> None,
             token_type |-> "Unknown"]

\* Mutant: a probe that throws counts as an ERC-721 contract.
is_erc721_failure_true(rpc) ==
    IF rpc.supportsInterface = Raise THEN TRUE ELSE rpc.supportsInterface.bool

\* is_erc721: the supportsInterface(0x80ac58cd) answer, False when it throws.
is_erc721(rpc) ==
    IF rpc.supportsInterface = Raise THEN FALSE ELSE rpc.supportsInterface.bool

\* Mutant: a decimals() that throws leaves the name and symbol read so far.
get_token_info_partial(rpc) ==
    IF rpc.block_number = Raise THEN Fallback
    ELSE IF is_erc721(rpc)
         THEN IF rpc.name = Raise \/ rpc.symbol = Raise THEN Fallback
              ELSE [name |-> rpc.name.str, symbol |-> rpc.symbol.str,
                    decimals |-> None, token_type |-> "ERC-721"]
         ELSE IF rpc.name = Raise \/ rpc.symbol = Raise THEN Fallback
              ELSE [name |-> rpc.name.str, symbol |-> rpc.symbol.str,
                    decimals |-> IF rpc.decimals = Raise THEN None ELSE rpc.decimals,
                    token_type |-> "ERC-20"]

\* get_token_info: (name, symbol, decimals, token type).
get_token_info(rpc) ==
    IF rpc.block_number = Raise THEN Fallback
    ELSE IF is_erc721(rpc)
         THEN IF rpc.name = Raise \/ rpc.symbol = Raise THEN Fallback
              ELSE [name |-> rpc.name.str, symbol |-> rpc.symbol.str,
                    decimals |-> None, token_type |-> "ERC-721"]
         ELSE IF rpc.name = Raise \/ rpc.symbol = Raise \/ rpc.decimals = Raise
              THEN Fallback
              ELSE [name |-> rpc.name.str, symbol |-> rpc.symbol.str,
                    decimals |-> rpc.decimals, token_type |-> "ERC-20"]

\* Mutant: the label formatted with the brackets whatever decimals is.
LabelAlwaysBrackets(info) ==
    info.name \o " (" \o info.symbol \o ") [" \o
        (IF info.decimals = None THEN "None" ELSE ToString(info.decimals.int)) \o "]"

\* Mutant: "if decimals:" in place of "if decimals is not None".
LabelTruthy(info) ==
    IF info.decimals # None /\ info.decimals.int # 0
    THEN info.name \o " (" \o info.symbol \o ") [" \o ToString(info.decimals.int) \o "]"
    ELSE info.name \o " (" \o info.symbol \o ")"

\* The label of lines 275-278.
Label(info) ==
    IF info.decimals # None
    THEN info.name \o " (" \o info.symbol \o ") [" \o ToString(info.decimals.int) \o "]"
    ELSE info.name \o " (" \o info.symbol \o ")"

\* The body of the enrichment loop, lines 269-281: the row with its three
\* new keys.
EnrichRow(row, info) ==
    row @@ [label |-> Label(info),
            token_type |-> info.token_type,
            decimals |-> IF info.decimals # None THEN info.decimals ELSE StrVal("N/A")]

-----------------------------------------------------------------------------
(* The cache, lines 48-58 *)

CACHE_EXPIRY_TIME == 6 * 60 * 60

NoEntry == [absent |-> TRUE]

\* Mutant: an entry aged exactly the expiry time still counts as valid.
is_cache_valid_inclusive(cached_data, time) ==
    /\ cached_data # NoEntry
    /\ time - cached_data.timestamp <= CACHE_EXPIRY_TIME

\* Mutant: the age test the wrong way round.
is_cache_valid_inverted(cached_data, time) ==
    /\ cached_data # NoEntry
    /\ time - cached_data.timestamp > CACHE_EXPIRY_TIME

\* is_cache_valid: the verdict on cached_data, the entry read at line 55 (or
\* NoEntry), with the reading time of time.time() at line 56.
is_cache_valid(cached_data, time) ==
    /\ cached_data # NoEntry
    /\ time - cached_data.timestamp < CACHE_EXPIRY_TIME

\* The dict display of lines 300-303.
NewEntry(token_data, time) == [data |-> token_data, timestamp |-> time]

\* Mutant: the rows are appended to the list of the entry in the cache.
SetItemExtend(old, new) ==
    IF old = NoEntry THEN new ELSE [new EXCEPT !.data = old.data \o new.data]

\* Mutant: the payload of the entry in the cache is replaced, its timestamp kept.
SetItemInPlace(old, new) ==
    IF old = NoEntry THEN new ELSE [old EXCEPT !.data = new.data]

\* cache[chain] = <new dict>: the slot of the chain refers to the new dict.
SetItem(old, new) == new

\* Mutant: the error object without the failure status.
ErrorResponseStatusOk(message) == [error |-> message, status |-> 200]

\* The tuple of line 310.
ErrorResponse(message) == [error |-> message, status |-> 500]

ListResponse(token_data) == [list |-> token_data]

-----------------------------------------------------------------------------
(* Bounds and inputs *)

MaxRequests == 3
MaxPeriods == 1
MaxTokens == 60
MaxSeeds == 3
MaxEnrichRows == 2

Threads == 1..MaxRequests

KnownChain == "ethereum"
UnknownChain == "dogechain"
Chains == {KnownChain, UnknownChain}

\* The instants the clock is read at: around each multiple of the expiry time.
ClockValues ==
    {t \in {p * CACHE_EXPIRY_TIME + e : p \in 0..MaxPeriods, e \in {0, 1}} : t >= 0}

\* Token k of a generated table: one day-group in each week, none in the
\* previous week for every tenth token.
GenToken(k) ==
    [d \in Days |->
        IF d = k % INTERVAL_7_DAYS
        THEN DayGroup(101 + ((k * 37) % 53), 1000 * k, 200 + k)
        ELSE IF d = INTERVAL_7_DAYS + 1 + (k % INTERVAL_7_DAYS) /\ k % 10 # 0
             THEN DayGroup(101 + ((k * 11) % 29), 500 * k, 150 + k)
             ELSE NoEvents]

GenTable(n, seed) == [a \in 1..n |-> GenToken(a * seed)]

\* The event table of the interleaving specification: one ranked token.
SpecTable == GenTable(1, 1)

\* The event tables of the enrichment specification: 0..MaxEnrichRows ranked
\* tokens, ranked in an order that is not the order of their addresses.
EnrichTables == {GenTable(n, 2) : n \in 0..MaxEnrichRows}

\* The event tables of the ranking specification: every one-token table over
\* the days around the window ends, a token with a group on every day,
\* a table with rows of equal growth, and generated tables of up to
\* MaxTokens tokens.
EdgeDays == {0, 6, 7, 8, 14}
EdgeGroups == {NoEvents, DayGroup(60, 10, 70), DayGroup(101, 20, 110),
               DayGroup(300, 30, 400)}

EdgeToken(f) == [d \in Days |-> IF d \in EdgeDays THEN f[d] ELSE NoEvents]

\* A token whose growth is its unique addresses of three days ago.
TieToken(u) ==
    [d \in Days |-> IF d = 3 THEN DayGroup(u, 30, u)
                    ELSE IF d = 10 THEN DayGroup(150, 20, 150)
                    ELSE NoEvents]

\* Three tokens of equal growth around one of larger growth.
TiedTable == <<TieToken(150), TieToken(150), TieToken(250), TieToken(150)>>

EveryDayToken(first, last) ==
    [d \in Days |-> IF d = 0 THEN DayGroup(first, 5, first)
                    ELSE IF d = INTERVAL_14_DAYS THEN DayGroup(last, 7, last)
                    ELSE DayGroup(150, 6, 150)]

RankTables ==
    {<<EdgeToken(f)>> : f \in [EdgeDays -> EdgeGroups]}
    \cup {<<EveryDayToken(x, y)>> : x, y \in {120, 500}}
    \cup {TiedTable}
    \cup {GenTable(n, seed) : n \in 0..MaxTokens, seed \in 1..MaxSeeds}

Weth == [block_number |-> IntVal(1), supportsInterface |-> Bool(FALSE),
         name |-> StrVal("Wrapped Ether"), symbol |-> StrVal("WETH"),
         decimals |-> IntVal(18)]

Unreachable == [block_number |-> Raise, supportsInterface |-> Raise,
                name |-> Raise, symbol |-> Raise, decimals |-> Raise]

SpecRpcs == {Weth, Unreachable}

AllRpcs ==
    [block_number : {IntVal(1), Raise},
     supportsInterface : {Bool(TRUE), Bool(FALSE), Raise},
     name : {StrVal("Wrapped Ether"), Raise},
     symbol : {StrVal("WETH"), Raise},
     decimals : {IntVal(0), IntVal(18), Raise}]

-----------------------------------------------------------------------------
(* get_data, lines 288-310, one action per step between two points where   *)
(* another thread can run.  A call that returned keeps its response ret,   *)
(* the entry it judged and the count of its calls; its lists are gone.      *)

NoCalls == [fetch |-> 0, info |-> 0]

\* The module is loaded: cache = {}, no request has arrived.
InitWith(tables) ==
    /\ cache = [c \in Chains |-> NoEntry]
    /\ now = 0
    /\ db \in tables
    /\ pc = [t \in Threads |-> "new"]
    /\ chain = [t \in Threads |-> KnownChain]
    /\ judged = [t \in Threads |-> NoEntry]
    /\ rows = [t \in Threads |-> <<>>]
    /\ results = [t \in Threads |-> <<>>]
    /\ idx = [t \in Threads |-> 1]
    /\ resolved = [t \in Threads |-> <<>>]
    /\ answers = [t \in Threads |-> None]
    /\ entry = [t \in Threads |-> NoEntry]
    /\ calls = [t \in Threads |-> NoCalls]
    /\ ret = [t \in Threads |-> None]
    /\ absorbed = [t \in Threads |-> FALSE]
    /\ finished = {}

Init == InitWith({SpecTable})

\* A request GET /data/{c} arrives and a worker thread takes it.
Request(t, c) ==
    /\ pc[t] = "new"
    /\ IF t = 1 THEN TRUE ELSE pc[t - 1] # "new"
    /\ pc' = [pc EXCEPT ![t] = "is_cache_valid"]
    /\ chain' = [chain EXCEPT ![t] = c]
    /\ UNCHANGED <<cache, now, db, judged, rows, results, idx, resolved, answers,
                   entry, calls, ret, absorbed, finished>>

\* Lines 292 and 54-55: is_cache_valid(chain) looks the chain up and reads
\* cached_data; with no entry it returns False without reading the clock.
IsCacheValid(t) ==
    /\ pc[t] = "is_cache_valid"
    /\ judged' = [judged EXCEPT ![t] = cache[chain[t]]]
    /\ pc' = [pc EXCEPT ![t] = IF cache[chain[t]] = NoEntry THEN "fetch" ELSE "expiry"]
    /\ UNCHANGED <<cache, now, db, chain, rows, results, idx, resolved, answers,
                   entry, calls, ret, absorbed, finished>>

\* Lines 56-58: time.time() is read and compared with the timestamp of
\* cached_data; another thread may have run since line 55.
CheckExpiry(t) ==
    /\ pc[t] = "expiry"
    /\ pc' = [pc EXCEPT ![t] = IF is_cache_valid(judged[t], now) THEN "hit" ELSE "fetch"]
    /\ UNCHANGED <<cache, now, db, chain, judged, rows, results, idx, resolved,
                   answers, entry, calls, ret, absorbed, finished>>

\* Lines 293-294: return cache[chain]["data"].
ServeCached(t) ==
    /\ pc[t] = "hit"
    /\ ret' = [ret EXCEPT ![t] = ListResponse(cache[chain[t]].data)]
    /\ pc' = [pc EXCEPT ![t] = "done"]
    /\ UNCHANGED <<cache, now, db, chain, judged, rows, results, idx, resolved,
                   answers, entry, calls, absorbed, finished>>

\* Lines 297 and 181-182: fetch_token_activity_data is called and opens its
\* connection outside any try of its own; what get_connection raises reaches
\* the except of get_data, lines 308-310.
Connect(t) ==
    /\ pc[t] = "fetch"
    /\ calls' = [calls EXCEPT ![t].fetch = @ + 1]
    /\ \/ /\ pc' = [pc EXCEPT ![t] = "execute"]
          /\ ret' = ret
       \/ /\ pc' = [pc EXCEPT ![t] = "done"]
          /\ ret' = [ret EXCEPT ![t] = ErrorResponse("could not connect to server")]
    /\ UNCHANGED <<cache, now, db, chain, judged, rows, results, idx, resolved,
                   answers, entry, absorbed, finished>>

\* Lines 251-265: cur.execute(query).  It raises when the table of the chain
\* does not exist and may raise for any chain; the except returns [].
Execute(t) ==
    /\ pc[t] = "execute"
    /\ \/ /\ rows' = rows
          /\ absorbed' = [absorbed EXCEPT ![t] = TRUE]
          /\ results' = [results EXCEPT ![t] = <<>>]
          /\ finished' = finished \cup {[chain |-> chain[t], output |-> <<>>]}
          /\ pc' = [pc EXCEPT ![t] = "build"]
       \/ /\ chain[t] = KnownChain
          /\ \E met \in MeetOrders(db) :
                LET fetched == Query(db, met) IN
                /\ rows' = [rows EXCEPT ![t] = fetched]
                /\ absorbed' = absorbed
                /\ results' = [results EXCEPT ![t] = fetched]
                /\ IF fetched = <<>>
                   THEN /\ pc' = [pc EXCEPT ![t] = "build"]
                        /\ finished' = finished \cup
                               {[chain |-> chain[t], output |-> <<>>]}
                   ELSE /\ pc' = [pc EXCEPT ![t] = "enrich"]
                        /\ finished' = finished
    /\ UNCHANGED <<cache, now, db, chain, judged, idx, resolved, answers, entry,
                   calls, ret>>

\* The remote calls of get_token_info, lines 156, 139, 161-162 and 169-171.
\* A thread waits in each of them, and other threads run meanwhile.
RemoteCalls == {"block_number", "supportsInterface", "name", "symbol", "decimals"}

\* The remote call get_token_info makes once the call it waits in has
\* answered as rpc says, "return" when it makes none and returns.
NextCall(rpc, call) ==
    IF call = "block_number"
    THEN IF rpc.block_number = Raise THEN "return" ELSE "supportsInterface"
    ELSE IF call = "supportsInterface" THEN "name"
    ELSE IF call = "name"
    THEN IF rpc.name = Raise THEN "return" ELSE "symbol"
    ELSE IF call = "symbol"
    THEN IF rpc.symbol = Raise \/ is_erc721(rpc) THEN "return" ELSE "decimals"
    ELSE "return"

\* Mutant: a turn of the loop that resolves the token a second time.
EnrichTwice(t, Rpcs) ==
    /\ pc[t] = "enrich"
    /\ \E rpc \in Rpcs : answers' = [answers EXCEPT ![t] = rpc]
    /\ calls' = [calls EXCEPT ![t].info = @ + 2]
    /\ pc' = [pc EXCEPT ![t] = "block_number"]
    /\ UNCHANGED <<cache, now, db, chain, judged, rows, results, idx, resolved,
                   entry, ret, absorbed, finished>>

\* Lines 268-272 and 147-156: a turn of the enrichment loop begins; it calls
\* get_token_info, which waits in the liveness probe.  rpc is what the
\* remote endpoint answers to each call about the token of the row.
Enrich(t, Rpcs) ==
    /\ pc[t] = "enrich"
    /\ \E rpc \in Rpcs : answers' = [answers EXCEPT ![t] = rpc]
    /\ calls' = [calls EXCEPT ![t].info = @ + 1]
    /\ pc' = [pc EXCEPT ![t] = "block_number"]
    /\ UNCHANGED <<cache, now, db, chain, judged, rows, results, idx, resolved,
                   entry, ret, absorbed, finished>>

\* Lines 156-177 and 272-286: the remote call the thread waits in answers.
\* get_token_info goes on to its next remote call, or returns: the turn then
\* sets the three keys of the row, and after the last row
\* fetch_token_activity_data returns results.
RemoteCall(t) ==
    /\ pc[t] \in RemoteCalls
    /\ IF NextCall(answers[t], pc[t]) # "return"
       THEN /\ pc' = [pc EXCEPT ![t] = NextCall(answers[t], pc[t])]
            /\ UNCHANGED <<results, resolved, idx, answers, finished>>
       ELSE /\ results' = [results EXCEPT
                              ![t][idx[t]] = EnrichRow(@, get_token_info(answers[t]))]
            /\ resolved' = [resolved EXCEPT ![t] =
                              Append(@, [rpc |-> answers[t],
                                         info |-> get_token_info(answers[t])])]
            /\ idx' = [idx EXCEPT ![t] = @ + 1]
            /\ answers' = [answers EXCEPT ![t] = None]
            /\ IF idx[t] = Len(results[t])
               THEN /\ pc' = [pc EXCEPT ![t] = "build"]
                    /\ finished' = finished \cup
                           {[chain |-> chain[t], output |-> results'[t]]}
               ELSE /\ pc' = [pc EXCEPT ![t] = "enrich"]
                    /\ finished' = finished
    /\ UNCHANGED <<cache, now, db, chain, judged, rows, entry, calls, ret, absorbed>>

\* Lines 300-303, the right-hand side: time.time() is read and the dict built.
BuildEntry(t) ==
    /\ pc[t] = "build"
    /\ entry' = [entry EXCEPT ![t] = NewEntry(results[t], now)]
    /\ pc' = [pc EXCEPT ![t] = "store"]
    /\ UNCHANGED <<cache, now, db, chain, judged, rows, results, idx, resolved,
                   answers, calls, ret, absorbed, finished>>

\* Mutant: the new dict is put in the slot of every chain.
StoreEveryChain(t) ==
    /\ pc[t] = "store"
    /\ cache' = [c \in Chains |-> SetItem(cache[c], entry[t])]
    /\ ret' = [ret EXCEPT ![t] = ListResponse(results[t])]
    /\ pc' = [pc EXCEPT ![t] = "done"]
    /\ rows' = [rows EXCEPT ![t] = <<>>]
    /\ results' = [results EXCEPT ![t] = <<>>]
    /\ idx' = [idx EXCEPT ![t] = 1]
    /\ resolved' = [resolved EXCEPT ![t] = <<>>]
    /\ entry' = [entry EXCEPT ![t] = NoEntry]
    /\ UNCHANGED <<now, db, chain, judged, answers, calls, absorbed, finished>>

\* Lines 300 and 305-306: the assignment to cache[chain], and the return.
Store(t) ==
    /\ pc[t] = "store"
    /\ cache' = [cache EXCEPT ![chain[t]] = SetItem(@, entry[t])]
    /\ ret' = [ret EXCEPT ![t] = ListResponse(results[t])]
    /\ pc' = [pc EXCEPT ![t] = "done"]
    /\ rows' = [rows EXCEPT ![t] = <<>>]
    /\ results' = [results EXCEPT ![t] = <<>>]
    /\ idx' = [idx EXCEPT ![t] = 1]
    /\ resolved' = [resolved EXCEPT ![t] = <<>>]
    /\ entry' = [entry EXCEPT ![t] = NoEntry]
    /\ UNCHANGED <<now, db, chain, judged, answers, calls, absorbed, finished>>

\* Time passes.
Tick ==
    /\ \E t \in ClockValues : t > now /\ now' = t
    /\ UNCHANGED <<cache, db, pc, chain, judged, rows, results, idx, resolved,
                   answers, entry, calls, ret, absorbed, finished>>

Next ==
    \/ \E t \in Threads, c \in Chains : Request(t, c)
    \/ \E t \in Threads : IsCacheValid(t)
    \/ \E t \in Threads : CheckExpiry(t)
    \/ \E t \in Threads : ServeCached(t)
    \/ \E t \in Threads : Connect(t)
    \/ \E t \in Threads : Execute(t)
    \/ \E t \in Threads : Enrich(t, SpecRpcs)
    \/ \E t \in Threads : RemoteCall(t)
    \/ \E t \in Threads : BuildEntry(t)
    \/ \E t \in Threads : Store(t)
    \/ Tick

Spec == Init /\ [][Next]_vars

-----------------------------------------------------------------------------
(* One get_data call on its own, over every answer of the remote endpoint.  *)

InitEnrich == InitWith(EnrichTables)

NextEnrich ==
    \/ \E c \in Chains : Request(1, c)
    \/ IsCacheValid(1)
    \/ Connect(1)
    \/ Execute(1)
    \/ Enrich(1, AllRpcs)
    \/ RemoteCall(1)
    \/ BuildEntry(1)
    \/ Store(1)

SpecEnrich == InitEnrich /\ [][NextEnrich]_vars

-----------------------------------------------------------------------------
(* The ranking query on its own, over the event tables of RankTables.       *)

InitRank == InitWith(RankTables)

NextRank ==
    \/ Request(1, KnownChain)
    \/ IsCacheValid(1)
    \/ Connect(1)
    \/ Execute(1)

SpecRank == InitRank /\ [][NextRank]_vars

-----------------------------------------------------------------------------
(* Claims *)

IsList(r) == "list" \in DOMAIN r
IsError(r) == "error" \in DOMAIN r
InFetch(t) == pc[t] \in {"execute", "enrich"} \cup RemoteCalls
Stale(e) == e = NoEntry \/ now - e.timestamp >= CACHE_EXPIRY_TIME

\* C1: a get_data call that starts while the stored entry is younger than
\* 6 hours returns the payload of that entry and makes no
\* fetch_token_activity_data and no get_token_info call.
C1_HitReturnsJudgedPayload ==
    [][\A t \in Threads :
          (pc[t] = "hit" /\ pc'[t] = "done") =>
              /\ ret'[t] = ListResponse(judged[t].data)
              /\ calls'[t] = NoCalls]_vars

\* C2: a get_data call that found a stored entry whose TTL has elapsed runs
\* fetch_token_activity_data exactly once, and the entry it stores has a
\* timestamp strictly greater than that of the entry it replaces.
C2_StaleRefreshAdvances ==
    [][\A t \in Threads :
          (pc[t] = "store" /\ pc'[t] = "done" /\ judged[t] # NoEntry) =>
              /\ calls'[t].fetch = 1
              /\ cache'[chain[t]].data = ret'[t].list
              /\ cache'[chain[t]].timestamp > cache[chain[t]].timestamp]_vars

\* C3: the payload in the cache and every payload returned is the complete
\* output of one finished fetch_token_activity_data run for that chain:
\* every row enriched, no rows of two runs.
Complete(payload) == \A i \in DOMAIN payload : "label" \in DOMAIN payload[i]

C3_PayloadOfOneFinishedRun ==
    /\ \A c \in Chains :
          cache[c] # NoEntry =>
              /\ [chain |-> c, output |-> cache[c].data] \in finished
              /\ Complete(cache[c].data)
    /\ \A t \in Threads :
          IsList(ret[t]) =>
              /\ [chain |-> chain[t], output |-> ret[t].list] \in finished
              /\ Complete(ret[t].list)

C3_Witness ==
    \E t, u \in Threads :
        /\ t # u /\ chain[t] = chain[u]
        /\ IsList(ret[t]) /\ IsList(ret[u])
        /\ ret[t].list # ret[u].list /\ ret[t].list # <<>>
        /\ cache[chain[t]] # NoEntry /\ cache[chain[t]].data = ret[t].list
        /\ calls[t].fetch = 1 /\ calls[u].fetch = 1

\* C4: every change of cache[C] puts in its place the whole dict one refresh
\* built, payload and timestamp together; no field of an entry is changed
\* in place.
C4_WholeEntryReplaced ==
    [][\A c \in Chains :
          cache'[c] # cache[c] =>
              \E t \in Threads :
                  /\ pc[t] = "store" /\ pc'[t] = "done" /\ chain[t] = c
                  /\ cache'[c] = entry[t]
                  /\ entry[t].data = results[t]]_vars

C4_Witness ==
    \E t \in Threads :
        /\ pc[t] = "done" /\ IsList(ret[t]) /\ calls[t].fetch = 1
        /\ judged[t] # NoEntry
        /\ cache[chain[t]].data = ret[t].list
        /\ cache[chain[t]].data # judged[t].data
        /\ cache[chain[t]].timestamp # judged[t].timestamp

\* C5 as stated: at most one fetch_token_activity_data(C) runs at any time.
C5_SingleFlight ==
    \A c \in Chains :
        Cardinality({t \in Threads : chain[t] = c /\ InFetch(t)}) <= 1

\* C5 as amended: a call runs fetch_token_activity_data at most once, and
\* only after it found the entry of its chain absent or elapsed; callers
\* that found it so each run their own.
C5_OneFetchPerStaleCaller ==
    \A t \in Threads :
        /\ calls[t].fetch <= 1
        /\ InFetch(t) => calls[t].fetch = 1 /\ Stale(judged[t])
        /\ calls[t].fetch = 1 => Stale(judged[t])

C5_Witness ==
    \E t, u \in Threads :
        t # u /\ chain[t] = chain[u] /\ InFetch(t) /\ InFetch(u)

\* C6: get_data never answers a data-source failure with an error object:
\* every call that returned, returned a list.
C6_NeverErrorObject ==
    \A t \in Threads : pc[t] = "done" => IsList(ret[t])

\* What the contract of the token does, read off the answers alone.
Failed(rpc) ==
    \/ rpc.block_number = Raise
    \/ rpc.name = Raise
    \/ rpc.symbol = Raise
    \/ rpc.supportsInterface # Bool(TRUE) /\ rpc.decimals = Raise

FullMetadata(rpc) ==
    IF rpc.supportsInterface = Bool(TRUE)
    THEN [name |-> rpc.name.str, symbol |-> rpc.symbol.str, decimals |-> None,
          token_type |-> "ERC-721"]
    ELSE [name |-> rpc.name.str, symbol |-> rpc.symbol.str,
          decimals |-> rpc.decimals, token_type |-> "ERC-20"]

InLoop(t) == pc[t] \in {"enrich", "build", "store"} \cup RemoteCalls

\* C7: the enriched list has the length of the ranked list and its i-th row
\* carries the address and metrics of the i-th ranked row, whatever each
\* resolution did; a token whose resolution failed is emitted with label
\* "Unknown (Unknown)" and decimals "N/A", and the loop goes on to the end.
C7_EnrichmentPreservesRanking ==
    \A t \in Threads :
        InLoop(t) =>
            /\ Len(results[t]) = Len(rows[t])
            /\ \A i \in DOMAIN rows[t] :
                  \A f \in DOMAIN rows[t][i] : results[t][i][f] = rows[t][i][f]
            /\ Len(resolved[t]) = idx[t] - 1
            /\ pc[t] \in {"build", "store"} => Len(resolved[t]) = Len(rows[t])
            /\ \A i \in DOMAIN resolved[t] :
                  /\ DOMAIN results[t][i] =
                         DOMAIN rows[t][i] \cup {"label", "token_type", "decimals"}
                  /\ Failed(resolved[t][i].rpc) =>
                         /\ results[t][i].label = "Unknown (Unknown)"
                         /\ results[t][i].decimals = StrVal("N/A")

C7_Witness ==
    \E t \in Threads :
        /\ pc[t] = "build" /\ Len(rows[t]) = 2
        /\ rows[t][1].token_address > rows[t][2].token_address
        /\ Failed(resolved[t][1].rpc) /\ ~Failed(resolved[t][2].rpc)
        /\ results[t][1].label = "Unknown (Unknown)"
        /\ results[t][2].label = "Wrapped Ether (WETH) [18]"

\* C8: whatever the liveness probe, the supportsInterface probe and the
\* name, symbol and decimals calls do, get_token_info returns the full
\* metadata of the branch taken when none of its calls failed, and exactly
\* the fallback when one did.
C8_FullOrFallback ==
    \A t \in Threads :
        \A i \in DOMAIN resolved[t] :
            resolved[t][i].info =
                IF Failed(resolved[t][i].rpc)
                THEN [name |-> "Unknown", symbol |-> "Unknown", decimals |-> None,
                      token_type |-> "Unknown"]
                ELSE FullMetadata(resolved[t][i].rpc)

C8_Witness ==
    \E t \in Threads :
        \E i \in DOMAIN resolved[t] :
            /\ resolved[t][i].rpc.block_number # Raise
            /\ resolved[t][i].rpc.supportsInterface = Raise
            /\ resolved[t][i].rpc.name # Raise
            /\ resolved[t][i].rpc.symbol # Raise
            /\ resolved[t][i].rpc.decimals = Raise
            /\ resolved[t][i].info.name = "Unknown"
            /\ resolved[t][i].info.decimals = None

\* C9 as stated: the token type of an enriched row is "ERC-721" when its
\* decimals field is "N/A" and "ERC-20" otherwise.
C9_TypeFromDecimals ==
    \A t \in Threads :
        \A i \in DOMAIN resolved[t] :
            results[t][i].token_type =
                IF results[t][i].decimals = StrVal("N/A") THEN "ERC-721" ELSE "ERC-20"

\* C9 as amended: the token type is "ERC-20" when the decimals field is a
\* number; when it is "N/A" the type is "ERC-721" for a row resolved as
\* ERC-721 and "Unknown" for a row whose resolution failed.
C9_TypeFromResolver ==
    \A t \in Threads :
        \A i \in DOMAIN resolved[t] :
            results[t][i].token_type =
                IF results[t][i].decimals # StrVal("N/A") THEN "ERC-20"
                ELSE IF Failed(resolved[t][i].rpc) THEN "Unknown" ELSE "ERC-721"

C9_Witness ==
    \E t \in Threads :
        /\ pc[t] = "build" /\ Len(results[t]) = 2
        /\ results[t][1].token_type = "Unknown"
        /\ results[t][1].decimals = StrVal("N/A")
        /\ results[t][2].token_type = "ERC-721"
        /\ results[t][2].decimals = StrVal("N/A")

\* C10: the rows the query returns are in descending order of
\* unique_addresses_growth, at most 50, and each has a
\* previous_week_unique_addresses that is not NULL and above 100.
C10_RankingSortedCappedFiltered ==
    \A t \in Threads :
        pc[t] \in {"enrich", "build"} =>
            /\ Len(rows[t]) <= 50
            /\ \A i, j \in DOMAIN rows[t] :
                  i < j => rows[t][i].unique_addresses_growth >=
                              rows[t][j].unique_addresses_growth
            /\ \A i \in DOMAIN rows[t] :
                  /\ rows[t][i].previous_week_unique_addresses # None
                  /\ rows[t][i].previous_week_unique_addresses.int > 100

C10_Witness ==
    \E t \in Threads :
        /\ pc[t] = "enrich" /\ Len(rows[t]) = 50
        /\ Cardinality({a \in DOMAIN db : WhereClause(comparison(a, db[a]))}) > 50
        /\ rows[t][1].unique_addresses_growth > rows[t][50].unique_addresses_growth

\* C11: is_cache_valid(C) is true iff an entry for C exists and
\* now - timestamp < 21600: an entry aged exactly 21600 s is stale, a younger
\* one is valid, no entry is stale.
C11_ValidIffYoungerThanSixHours ==
    [][\A t \in Threads :
          /\ (pc[t] = "is_cache_valid" /\ pc'[t] # pc[t]) =>
                 /\ pc'[t] \in {"expiry", "fetch"}
                 /\ pc'[t] = "fetch" <=> "timestamp" \notin DOMAIN cache[chain[t]]
                 /\ judged'[t] = cache[chain[t]]
          /\ (pc[t] = "expiry" /\ pc'[t] # pc[t]) =>
                 /\ pc'[t] \in {"hit", "fetch"}
                 /\ pc'[t] = "hit" <=> now - judged[t].timestamp < 21600]_vars

C11_Witness ==
    \E t, u \in Threads :
        /\ pc[t] = "fetch" /\ judged[t] # NoEntry
        /\ now - judged[t].timestamp = 21600
        /\ pc[u] = "done" /\ calls[u] = NoCalls /\ IsList(ret[u])
        /\ judged[u] = judged[t]
        /\ \E v \in Threads : pc[v] = "done" /\ judged[v] = NoEntry /\ calls[v].fetch = 1

\* C12: on a cache hit the entry the payload is read from is the entry
\* is_cache_valid judged valid, whatever concurrent refreshes of the chain do
\* in between.
C12_HitReadsJudgedEntry ==
    [][\A t \in Threads :
          (pc[t] = "hit" /\ pc'[t] = "done") => cache[chain[t]] = judged[t]]_vars

\* C13: an entry for C is created or replaced only by a refresh whose
\* aggregation query succeeded, and an entry that exists is never deleted.
C13_OnlySuccessfulRefreshStores ==
    [][\A c \in Chains :
          /\ cache'[c] # cache[c] =>
                 \E t \in Threads :
                     /\ pc[t] = "store" /\ pc'[t] = "done" /\ chain[t] = c
                     /\ ~absorbed[t]
          /\ cache[c] # NoEntry => cache'[c] # NoEntry]_vars

\* C14: when an exception escapes the refresh, get_data returns the error
\* object with status 500, and no step of that call changed the cache: no
\* entry is created and an elapsed entry keeps its payload and timestamp.
C14_ErrorLeavesCacheAlone ==
    [][\A t \in Threads :
          /\ (pc[t] = "fetch" /\ pc'[t] = "done") =>
                 /\ DOMAIN ret'[t] = {"error", "status"}
                 /\ ret'[t].error = "could not connect to server"
                 /\ ret'[t].status = 500
          /\ (pc[t] \in {"new", "is_cache_valid", "expiry", "fetch"} /\ pc'[t] # pc[t]) =>
                 cache' = cache]_vars

C14_Witness ==
    \E t \in Threads :
        /\ pc[t] = "done" /\ IsError(ret[t]) /\ calls[t].fetch = 1
        /\ judged[t] # NoEntry /\ Stale(judged[t])
        /\ cache[chain[t]] = judged[t]
        /\ \E c \in Chains : cache[c] = NoEntry

\* C15: a get_data(C) call changes no entry but that of C, and no step of a
\* get_data(D) call waits for a refresh of C that is in flight.
NeverWaits(u) ==
    /\ pc[u] = "is_cache_valid" => ENABLED IsCacheValid(u)
    /\ pc[u] = "expiry" => ENABLED CheckExpiry(u)
    /\ pc[u] = "hit" => ENABLED ServeCached(u)
    /\ pc[u] = "fetch" => ENABLED Connect(u)
    /\ pc[u] = "execute" => ENABLED Execute(u)
    /\ pc[u] = "enrich" => ENABLED Enrich(u, SpecRpcs)
    /\ pc[u] \in RemoteCalls => ENABLED RemoteCall(u)
    /\ pc[u] = "build" => ENABLED BuildEntry(u)
    /\ pc[u] = "store" => ENABLED Store(u)

C15_ChainsIndependent ==
    /\ [][\A t \in Threads :
             pc'[t] # pc[t] =>
                 \A d \in Chains \ {chain'[t]} : cache'[d] = cache[d]]_vars
    /\ [](\A u \in Threads : NeverWaits(u))

C15_Witness ==
    \E t, u \in Threads :
        /\ chain[t] # chain[u]
        /\ pc[t] = "done" /\ calls[t].fetch = 1 /\ IsList(ret[t])
        /\ cache[chain[t]] # NoEntry
        /\ pc[u] = "store" /\ cache[chain[u]] = NoEntry

\* C16: get_token_info is called exactly once per ranked row; when the
\* ranking is empty, because no token qualifies or because the query failed,
\* the refresh returns an empty sequence and makes no get_token_info call.
C16_EmptyRankingNoResolution ==
    \A t \in Threads :
        /\ pc[t] = "enrich" => calls[t].info = idx[t] - 1 /\ ~absorbed[t]
        /\ pc[t] \in RemoteCalls => calls[t].info = idx[t] /\ ~absorbed[t]
        /\ pc[t] \in {"build", "store"} =>
              /\ calls[t].info = Len(rows[t])
              /\ [chain |-> chain[t], output |-> results[t]] \in finished
              /\ (absorbed[t] \/ rows[t] = <<>>) =>
                     results[t] = <<>> /\ calls[t].info = 0

C16_Witness ==
    \E t \in Threads :
        /\ pc[t] = "build" /\ calls[t].fetch = 1
        /\ chain[t] = KnownChain /\ ~absorbed[t]
        /\ rows[t] = <<>> /\ results[t] = <<>> /\ calls[t].info = 0

\* C17: when the supportsInterface probe fails and the liveness probe and
\* name(), symbol(), decimals() succeed, get_token_info returns the name,
\* symbol and decimals of the contract with type "ERC-20"; it returns the
\* ERC-721 tuple (no decimals) only when the probe answered true.
C17_ProbeFailureIsNotErc721 ==
    \A t \in Threads :
        \A i \in DOMAIN resolved[t] :
            LET rpc == resolved[t][i].rpc
                info == resolved[t][i].info
            IN /\ ( /\ rpc.supportsInterface = Raise
                    /\ Raise \notin {rpc.block_number, rpc.name, rpc.symbol,
                                     rpc.decimals} ) =>
                      info = [name |-> rpc.name.str, symbol |-> rpc.symbol.str,
                              decimals |-> rpc.decimals, token_type |-> "ERC-20"]
               /\ info.token_type = "ERC-721" =>
                      /\ rpc.supportsInterface = Bool(TRUE)
                      /\ info.decimals = None

C17_Witness ==
    \E t \in Threads :
        \E i \in DOMAIN resolved[t] :
            /\ resolved[t][i].rpc.supportsInterface = Raise
            /\ resolved[t][i].info =
                   [name |-> "Wrapped Ether", symbol |-> "WETH",
                    decimals |-> IntVal(18), token_type |-> "ERC-20"]

\* C19: for every resolved (name, symbol, decimals) the label of the row is
\* "{name} ({symbol}) [{decimals}]" and its decimals field the number when
\* decimals is present, 0 included, and the label is "{name} ({symbol})" and
\* the decimals field "N/A" when it is absent.
C19_LabelAndDecimals ==
    \A t \in Threads :
        \A i \in DOMAIN resolved[t] :
            LET info == resolved[t][i].info
                row == results[t][i]
            IN /\ info.decimals # None =>
                      /\ row.label = info.name \o " (" \o info.symbol \o ") [" \o
                                         ToString(info.decimals.int) \o "]"
                      /\ row.decimals = info.decimals
               /\ info.decimals = None =>
                      /\ row.label = info.name \o " (" \o info.symbol \o ")"
                      /\ row.decimals = StrVal("N/A")
               /\ (info.name = "Wrapped Ether" /\ info.symbol = "WETH"
                       /\ info.decimals = IntVal(18)) =>
                      /\ row.label = "Wrapped Ether (WETH) [18]"
                      /\ row.decimals = IntVal(18)

C19_Witness ==
    \E t \in Threads :
        /\ pc[t] = "build" /\ Len(results[t]) = 2
        /\ results[t][1].label = "Wrapped Ether (WETH) [0]"
        /\ results[t][1].decimals = IntVal(0)
        /\ results[t][2].label = "Wrapped Ether (WETH)"
        /\ results[t][2].decimals = StrVal("N/A")

\* The rolling sum anchored at the most recent day of the token in a window:
\* NULL when the token has no day-group there.
AnchoredAtMostRecentDay(token, window, metric) ==
    LET S == token_activity(token) \cap window
    IN IF S = {} THEN None
       ELSE IntVal(rolling_7_day(token, CHOOSE d \in S : \A e \in S : d <= e, metric))

\* C18: for every ranked token the "current week" value of each metric is the
\* rolling sum anchored at its most recent day within [now-7d, now], and the
\* "previous week" value the rolling sum anchored at its most recent day
\* within [now-14d, now-7d].
C18_WeekValueAtMostRecentDay ==
    \A t \in Threads :
        pc[t] \in {"enrich", "build"} =>
            \A i \in DOMAIN rows[t] :
                LET row == rows[t][i]
                    token == db[row.token_address]
                IN /\ row.current_week_unique_addresses =
                          AnchoredAtMostRecentDay(token, 0..7, "unique_addresses")
                   /\ row.current_week_total_volume =
                          AnchoredAtMostRecentDay(token, 0..7, "total_volume")
                   /\ row.current_week_total_transactions =
                          AnchoredAtMostRecentDay(token, 0..7, "total_transactions")
                   /\ row.previous_week_unique_addresses =
                          AnchoredAtMostRecentDay(token, 7..14, "unique_addresses")
                   /\ row.previous_week_total_volume =
                          AnchoredAtMostRecentDay(token, 7..14, "total_volume")
                   /\ row.previous_week_total_transactions =
                          AnchoredAtMostRecentDay(token, 7..14, "total_transactions")

\* C20: under a non-decreasing clock and any interleaving of get_data(C)
\* calls, the timestamp stored in cache[C] never decreases from one state to
\* the next: no entry is overwritten by one built before it.
C20_TimestampNeverDecreases ==
    [][\A c \in Chains :
          (cache[c] # NoEntry /\ cache'[c] # cache[c]) =>
              /\ cache'[c] # NoEntry
              /\ cache'[c].timestamp >= cache[c].timestamp]_vars

====
